---- MODULE Spec2Model ----
(***************************************************************************)
(* Provider-fallback analyzer of the train-carriage congestion app:        *)
(* lib/analyzer.ts (src/unnamed/part_002, second revision, lines 181-381)  *)
(* and lib/providers/{base,sambanova,bedrock}.ts.                          *)
(***************************************************************************)
EXTENDS Integers, Sequences, FiniteSets, TLC

(***************************************************************************)
(* Bounds of the model.                                                    *)
(***************************************************************************)
\* highest index i of the SAMBANOVA_API_KEY_i family the environment may set
MaxKeyIndex == 3

(***************************************************************************)
(* JavaScript values, as far as validateResult can tell them apart.        *)
(* A value is a record [t, n, s]: t its type tag, n its number, s its text.*)
(***************************************************************************)
JUndefined == [t |-> "undefined", n |-> 0, s |-> ""]
JNaN == [t |-> "NaN", n |-> 0, s |-> ""]
JNum(k) == [t |-> "number", n |-> k, s |-> ""]
JStr(str) == [t |-> "string", n |-> 0, s |-> str]

\* ToBoolean: undefined, NaN, 0 and "" are falsy
Truthy(v) ==
    CASE v.t = "number" -> v.n # 0
      [] v.t = "string" -> v.s # ""
      [] OTHER -> FALSE

\* a || b
JsOr(a, b) == IF Truthy(a) THEN a ELSE b

\* StringToNumber on the strings the model uses
StringToNumber(str) ==
    CASE str = "" -> JNum(0)
      [] str = "120" -> JNum(120)
      [] OTHER -> JNaN

\* ToNumber
ToNumber(v) ==
    CASE v.t = "number" -> v
      [] v.t = "string" -> StringToNumber(v.s)
      [] OTHER -> JNaN

\* Math.max(a, b) and Math.min(a, b): NaN if either argument converts to NaN
MathMax(a, b) ==
    LET x == ToNumber(a)
        y == ToNumber(b)
    IN  IF x.t = "NaN" \/ y.t = "NaN" THEN JNaN
        ELSE IF x.n >= y.n THEN x ELSE y

MathMin(a, b) ==
    LET x == ToNumber(a)
        y == ToNumber(b)
    IN  IF x.t = "NaN" \/ y.t = "NaN" THEN JNaN
        ELSE IF x.n <= y.n THEN x ELSE y

(***************************************************************************)
(* Result Contract: base.ts.                                               *)
(***************************************************************************)
validStatuses == <<"empty", "few people", "moderate", "full">>

\* Array.prototype.includes on validStatuses (strict: only a string can match)
StatusIncluded(v) ==
    /\ v.t = "string"
    /\ \E i \in 1..Len(validStatuses) : validStatuses[i] = v.s

\* variant: any string is taken for a status
validateStatusAnyString(v) == IF v.t = "string" THEN v.s ELSE "moderate"

validateStatus(v) == IF StatusIncluded(v) THEN v.s ELSE "moderate"

validateCapacity(v) == MathMin(JNum(150), MathMax(JNum(0), JsOr(v, JNum(50))))

validateConfidence(v) == MathMin(JNum(100), MathMax(JNum(0), JsOr(v, JNum(70))))

validateReasoning(v) == JsOr(v, JStr("Analysis completed"))

\* result: the parsed reply object, a record of JavaScript values
validateResult(result) ==
    [status |-> validateStatus(result.status),
     capacity |-> validateCapacity(result.capacity),
     confidence |-> validateConfidence(result.confidence),
     reasoning |-> validateReasoning(result.reasoning)]

(***************************************************************************)
(* Configuration surface (process.env).  "" stands for an unset variable.  *)
(***************************************************************************)
\* values of AI_PROVIDER / AI_FALLBACK_PROVIDER: unset, the registered
\* identifiers, an unregistered one, and a name every object inherits
SelectorValues == {"", "sambanova", "bedrock", "openai", "unknown", "toString"}

\* env.SAMBANOVA_API_KEYS: the indices i whose key is set, 1 standing for
\* SAMBANOVA_API_KEY and i > 1 for SAMBANOVA_API_KEY_i
\* env.AWS_CREDENTIALS: AWS_ACCESS_KEY_ID and AWS_SECRET_ACCESS_KEY both set
\* env.OPENAI_ENABLED: the `enabled` flag the third provider's constructor
\* passes to super() (a subclass's choice; the two shipped providers pass true)
Environments ==
    [AI_PROVIDER : SelectorValues,
     AI_FALLBACK_PROVIDER : SelectorValues,
     SAMBANOVA_API_KEYS : SUBSET (1..MaxKeyIndex),
     AWS_CREDENTIALS : BOOLEAN,
     OPENAI_API_KEY : BOOLEAN,
     OPENAI_ENABLED : BOOLEAN]

(***************************************************************************)
(* Providers: sambanova.ts, bedrock.ts, and the README's third provider.   *)
(***************************************************************************)
getName(p) ==
    CASE p = "sambanova" -> "SambaNova"
      [] p = "bedrock" -> "AWS Bedrock"
      [] p = "openai" -> "OpenAI"

RECURSIVE ScanKeysSkipsGaps(_, _)
\* variant: the scan goes on after a missing index
ScanKeysSkipsGaps(present, i) ==
    IF i > MaxKeyIndex THEN <<>>
    ELSE (IF i \in present THEN <<i>> ELSE <<>>) \o ScanKeysSkipsGaps(present, i + 1)

RECURSIVE ScanKeys(_, _)
\* the while loop of collectApiKeys: KEY_i, KEY_i+1, ... up to the first gap
ScanKeys(present, i) ==
    IF i \in present THEN <<i>> \o ScanKeys(present, i + 1) ELSE <<>>

collectApiKeys(e) ==
    (IF 1 \in e.SAMBANOVA_API_KEYS THEN <<1>> ELSE <<>>)
        \o ScanKeys(e.SAMBANOVA_API_KEYS, 2)

isConfigured(p, e) ==
    CASE p = "sambanova" -> Len(collectApiKeys(e)) > 0
      [] p = "bedrock" -> e.AWS_CREDENTIALS
      [] p = "openai" -> e.OPENAI_API_KEY

isEnabled(p, e) ==
    CASE p = "sambanova" -> TRUE
      [] p = "bedrock" -> TRUE
      [] p = "openai" -> e.OPENAI_ENABLED

(***************************************************************************)
(* Provider Registry and Init: analyzer.ts.                                *)
(***************************************************************************)
\* the own keys of PROVIDER_REGISTRY, in insertion order
PROVIDER_REGISTRY == <<"sambanova", "bedrock", "openai">>

Registered == {PROVIDER_REGISTRY[i] : i \in 1..Len(PROVIDER_REGISTRY)}

\* property names PROVIDER_REGISTRY inherits from Object.prototype
ObjectPrototypeKeys == {"toString"}

\* PROVIDER_REGISTRY[name]: a factory, an inherited member, or undefined
RegistryLookup(name) ==
    IF name \in Registered THEN "factory"
    ELSE IF name \in ObjectPrototypeKeys THEN "inherited"
    ELSE "undefined"

NoFallback == "<null>"

getPrimaryProvider(e) == IF e.AI_PROVIDER # "" THEN e.AI_PROVIDER ELSE "bedrock"

getFallbackProvider(e) ==
    IF e.AI_FALLBACK_PROVIDER # "" THEN e.AI_FALLBACK_PROVIDER ELSE NoFallback

\* variant: the enabled flag is not consulted
UsableIfConfigured(p, e) == isConfigured(p, e)

\* provider.isConfigured() && provider.isEnabled()
Usable(p, e) == isConfigured(p, e) /\ isEnabled(p, e)

\* "Add primary provider first"
PrimaryPart(e) ==
    LET primaryName == getPrimaryProvider(e)
    IN  IF RegistryLookup(primaryName) = "factory" /\ Usable(primaryName, e)
        THEN <<primaryName>> ELSE <<>>

\* variant: the fallback is not compared with the primary
FallbackPartNoPrimaryCheck(e) ==
    LET fallbackName == getFallbackProvider(e)
    IN  IF /\ fallbackName # NoFallback
           /\ RegistryLookup(fallbackName) = "factory"
           /\ Usable(fallbackName, e)
        THEN <<fallbackName>> ELSE <<>>

\* "Add explicit fallback provider if specified"
FallbackPart(e) ==
    LET primaryName == getPrimaryProvider(e)
        fallbackName == getFallbackProvider(e)
    IN  IF /\ fallbackName # NoFallback
           /\ fallbackName # primaryName
           /\ RegistryLookup(fallbackName) = "factory"
           /\ Usable(fallbackName, e)
        THEN <<fallbackName>> ELSE <<>>

\* "Add any other configured providers as additional fallbacks"
RestPart(e) ==
    LET primaryName == getPrimaryProvider(e)
        fallbackName == getFallbackProvider(e)
        Keep(name) == /\ name # primaryName
                      /\ name # fallbackName
                      /\ Usable(name, e)
    IN  SelectSeq(PROVIDER_REGISTRY, Keep)

\* calling a truthy PROVIDER_REGISTRY[name] that is no factory yields a value
\* without isConfigured: the call provider.isConfigured() throws a TypeError
LookupThrows(e) ==
    LET primaryName == getPrimaryProvider(e)
        fallbackName == getFallbackProvider(e)
    IN  \/ RegistryLookup(primaryName) = "inherited"
        \/ /\ fallbackName # NoFallback
           /\ fallbackName # primaryName
           /\ RegistryLookup(fallbackName) = "inherited"

\* variant: no check for an empty list
initializeProvidersNoEmptyCheck(e) ==
    IF LookupThrows(e)
    THEN [ok |-> FALSE, providers |-> <<>>,
          error |-> "provider.isConfigured is not a function"]
    ELSE [ok |-> TRUE, providers |-> PrimaryPart(e) \o FallbackPart(e) \o RestPart(e),
          error |-> ""]

\* variant: the first revision of the file (part_002 lines 43-74), which has
\* no AI_FALLBACK_PROVIDER: the primary, then the others in registry order
initializeProvidersFirstRevision(e) ==
    LET primaryName == getPrimaryProvider(e)
        Other(name) == name # primaryName /\ Usable(name, e)
        list == PrimaryPart(e) \o SelectSeq(PROVIDER_REGISTRY, Other)
    IN  IF RegistryLookup(primaryName) = "inherited"
        THEN [ok |-> FALSE, providers |-> <<>>,
              error |-> "provider.isConfigured is not a function"]
        ELSE IF Len(list) = 0
        THEN [ok |-> FALSE, providers |-> <<>>,
              error |-> "No AI providers configured. Please set up at least one provider in .env.local"]
        ELSE [ok |-> TRUE, providers |-> list, error |-> ""]

\* initializeProviders(): the list, or the error it throws
initializeProviders(e) ==
    LET list == PrimaryPart(e) \o FallbackPart(e) \o RestPart(e)
    IN  IF LookupThrows(e)
        THEN [ok |-> FALSE, providers |-> <<>>,
              error |-> "provider.isConfigured is not a function"]
        ELSE IF Len(list) = 0
        THEN [ok |-> FALSE, providers |-> <<>>,
              error |-> "No AI providers configured. Please set up at least one provider in .env.local"]
        ELSE [ok |-> TRUE, providers |-> list, error |-> ""]

(***************************************************************************)
(* Inputs: the image handed to analyzeCarriageImage, the backend's reply.  *)
(***************************************************************************)
\* a canvas data URL, a remote URL, a string that is neither
ImageInputs == {"data:image/jpeg;base64,AAAA", "https://cam/frame.jpg", "frame.jpg"}

\* convertImageData: atob on a data URL's payload, new URL(...) otherwise,
\* which throws on a string that is no URL
ConvertThrows(image) ==
    image \notin {"data:image/jpeg;base64,AAAA", "https://cam/frame.jpg"}

\* A reply text is a sequence of tokens: "{" and "}", "prose" (brace-free
\* text) and "body" (the members of a JSON object, whose values are `fields`).
ParsedFields(status, capacity, confidence, reasoning) ==
    [status |-> status, capacity |-> capacity,
     confidence |-> confidence, reasoning |-> reasoning]

NoFields == ParsedFields(JUndefined, JUndefined, JUndefined, JUndefined)

TextReply(text, fields) == [kind |-> "text", text |-> text, fields |-> fields, msg |-> ""]

ErrorReply(msg) == [kind |-> "error", text |-> <<>>, fields |-> NoFields, msg |-> msg]

\* what generateText can come back with: a thrown transport/auth error or a text
BackendReplies ==
    { ErrorReply("timeout"), ErrorReply("bad key"),
      TextReply(<<"prose", "{", "body", "}", "prose">>,
                ParsedFields(JStr("full"), JNum(120), JNum(90), JStr("crowded"))),
      TextReply(<<"{", "body", "}">>,
                ParsedFields(JStr("few_people"), JNum(200), JNum(-10), JStr("packed"))),
      TextReply(<<"{", "body", "}">>,
                ParsedFields(JStr("full"), JStr("85%"), JNum(90), JStr("crowded"))),
      TextReply(<<"{", "}">>, NoFields),
      TextReply(<<"prose">>, NoFields),
      TextReply(<<"}", "prose", "{">>, NoFields),
      TextReply(<<"{", "prose", "}">>, NoFields) }

(***************************************************************************)
(* Response parsing: text.match(/\{[\s\S]*\}/) and JSON.parse.             *)
(***************************************************************************)
Positions(text, tok) == {i \in 1..Len(text) : text[i] = tok}

Min(S) == CHOOSE x \in S : \A y \in S : x <= y

Max(S) == CHOOSE x \in S : \A y \in S : x >= y

\* the greedy match: from the first "{" to the last "}" after it, or no match
HasJsonMatch(text) ==
    /\ Positions(text, "{") # {}
    /\ \E j \in Positions(text, "}") : j > Min(Positions(text, "{"))

\* variant: a lazy match, from the first "{" to the first "}" after it
jsonMatchLazy(text) ==
    SubSeq(text, Min(Positions(text, "{")),
           Min({j \in Positions(text, "}") : j > Min(Positions(text, "{"))}))

jsonMatch(text) ==
    SubSeq(text, Min(Positions(text, "{")), Max(Positions(text, "}")))

\* JSON.parse accepts "{" members "}" and "{}"
JsonParses(sub) == sub = <<"{", "body", "}">> \/ sub = <<"{", "}">>

JsonParse(sub, fields) == IF sub = <<"{", "body", "}">> THEN fields ELSE NoFields

(***************************************************************************)
(* analyzeImage: the part before `await generateText`, and the part after. *)
(***************************************************************************)
NotConfiguredMessage(p) ==
    CASE p = "sambanova" -> "SambaNova API key not configured. Set SAMBANOVA_API_KEY in .env.local"
      [] p = "bedrock" -> "AWS Bedrock credentials not configured. Set AWS_ACCESS_KEY_ID and AWS_SECRET_ACCESS_KEY in .env.local"
      [] p = "openai" -> "OpenAI API key not configured"

\* the catch block of analyzeImage
WrapError(p, cause) == getName(p) \o " analysis failed: " \o cause

\* variant: the advanced pointer is not written back
rotateKeyLosesUpdate(ptr, e) == ptr

\* variant: the pointer moves two positions
rotateKeySkipsOne(ptr, e) == (ptr + 2) % Len(collectApiKeys(e))

\* variant: the pointer is incremented without the modulo
rotateKeyNoWrap(ptr, e) == ptr + 1

\* rotateKey: the pointer after the call
rotateKey(ptr, e) == (ptr + 1) % Len(collectApiKeys(e))

\* no credential of the pool was selected
NoKey == -1

\* variant: rotateKey is called first, before the image is converted
analyzeImagePrefixRotatesFirst(p, image, ptr, e) ==
    IF ~isConfigured(p, e)
    THEN [st |-> "rejected", stage |-> "configuration",
          msg |-> NotConfiguredMessage(p), key |-> NoKey, ptr |-> ptr]
    ELSE IF ConvertThrows(image)
    THEN [st |-> "rejected", stage |-> "conversion",
          msg |-> WrapError(p, "Invalid URL"),
          key |-> IF p = "sambanova" THEN ptr ELSE NoKey,
          ptr |-> IF p = "sambanova" THEN rotateKey(ptr, e) ELSE ptr]
    ELSE [st |-> "inflight", stage |-> "request", msg |-> "",
          key |-> IF p = "sambanova" THEN ptr ELSE NoKey,
          ptr |-> IF p = "sambanova" THEN rotateKey(ptr, e) ELSE ptr]

\* variant: no isConfigured() test, the request goes out without credentials
analyzeImagePrefixNoConfigCheck(p, image, ptr, e) ==
    IF ConvertThrows(image)
    THEN [st |-> "rejected", stage |-> "conversion",
          msg |-> WrapError(p, "Invalid URL"), key |-> NoKey, ptr |-> ptr]
    ELSE [st |-> "inflight", stage |-> "request", msg |-> "",
          key |-> IF p = "sambanova" /\ isConfigured(p, e) THEN ptr ELSE NoKey,
          ptr |-> IF p = "sambanova" /\ isConfigured(p, e)
                  THEN rotateKey(ptr, e) ELSE ptr]

\* up to the await: [st, stage, msg, key, ptr]; st = "rejected" when it threw
\* already, stage the step it reached, key the pool position whose client
\* rotateKey returned (this.providers[this.currentKeyIndex]), ptr the pointer
\* it leaves behind
analyzeImagePrefix(p, image, ptr, e) ==
    IF ~isConfigured(p, e)
    THEN [st |-> "rejected", stage |-> "configuration",
          msg |-> NotConfiguredMessage(p), key |-> NoKey, ptr |-> ptr]
    ELSE IF ConvertThrows(image)
    THEN [st |-> "rejected", stage |-> "conversion",
          msg |-> WrapError(p, "Invalid URL"), key |-> NoKey, ptr |-> ptr]
    ELSE [st |-> "inflight", stage |-> "request", msg |-> "",
          key |-> IF p = "sambanova" THEN ptr ELSE NoKey,
          ptr |-> IF p = "sambanova" THEN rotateKey(ptr, e) ELSE ptr]

NoResult == [status |-> "", capacity |-> JUndefined,
             confidence |-> JUndefined, reasoning |-> JUndefined]

\* the message of the SyntaxError JSON.parse throws (its wording is the engine's)
JsonSyntaxErrorMessage == "Unexpected token in JSON"

\* variant: a reply without JSON is answered with the defaults, not an error
analyzeImageResumeDefaultsWithoutJson(p, reply) ==
    IF reply.kind = "error"
    THEN [ok |-> FALSE, stage |-> "request", result |-> NoResult,
          msg |-> WrapError(p, reply.msg)]
    ELSE IF ~HasJsonMatch(reply.text)
    THEN [ok |-> TRUE, stage |-> "returned", msg |-> "",
          result |-> validateResult(NoFields)]
    ELSE IF ~JsonParses(jsonMatch(reply.text))
    THEN [ok |-> FALSE, stage |-> "parsing", result |-> NoResult,
          msg |-> WrapError(p, JsonSyntaxErrorMessage)]
    ELSE [ok |-> TRUE, stage |-> "returned", msg |-> "",
          result |-> validateResult(JsonParse(jsonMatch(reply.text), reply.fields))]

\* variant: JSON.parse is guarded and reports the extraction message
analyzeImageResumeGuardedParse(p, reply) ==
    IF reply.kind = "error"
    THEN [ok |-> FALSE, stage |-> "request", result |-> NoResult,
          msg |-> WrapError(p, reply.msg)]
    ELSE IF ~HasJsonMatch(reply.text)
    THEN [ok |-> FALSE, stage |-> "extraction", result |-> NoResult,
          msg |-> WrapError(p, "Failed to extract JSON from response")]
    ELSE IF ~JsonParses(jsonMatch(reply.text))
    THEN [ok |-> FALSE, stage |-> "parsing", result |-> NoResult,
          msg |-> WrapError(p, "Failed to extract JSON from response")]
    ELSE [ok |-> TRUE, stage |-> "returned", msg |-> "",
          result |-> validateResult(JsonParse(jsonMatch(reply.text), reply.fields))]

\* after the await: [ok, stage, result, msg], stage the step it ended at
analyzeImageResume(p, reply) ==
    IF reply.kind = "error"
    THEN [ok |-> FALSE, stage |-> "request", result |-> NoResult,
          msg |-> WrapError(p, reply.msg)]
    ELSE IF ~HasJsonMatch(reply.text)
    THEN [ok |-> FALSE, stage |-> "extraction", result |-> NoResult,
          msg |-> WrapError(p, "Failed to extract JSON from response")]
    ELSE IF ~JsonParses(jsonMatch(reply.text))
    THEN [ok |-> FALSE, stage |-> "parsing", result |-> NoResult,
          msg |-> WrapError(p, JsonSyntaxErrorMessage)]
    ELSE [ok |-> TRUE, stage |-> "returned", msg |-> "",
          result |-> validateResult(JsonParse(jsonMatch(reply.text), reply.fields))]

(***************************************************************************)
(* State.                                                                  *)
(***************************************************************************)
VARIABLES
    phase,            \* module load: "boot", then "ready" or "failed"
    loadError,        \* the error module load threw, "" if none
    env,              \* process.env
    providers,        \* analyzer.ts: const providers
    currentKeyIndex,  \* SambaNovaProvider.currentKeyIndex
    call,             \* the analyzeCarriageImage call of the polling loop
    validation,       \* a validateResult application: [input, output, done]
    invocations,      \* the analyzeImage calls made on a provider directly
    diag,             \* testProviders' call and getProviderInfo's last answer
    calls,            \* overlapping analyzeCarriageImage calls, by call number
    ui                \* the status page and its VideoAnalyzer

vars == <<phase, loadError, env, providers, currentKeyIndex, call, validation,
          invocations, diag, calls, ui>>

\* call.pc: "idle" (none made yet), "awaiting" (suspended in the await of
\* line 301), "returned", "raised" (the promise rejected)
\* call.idx: index in providers of the provider being tried
\* call.pending: "inflight" (the request is out) or "rejected" (analyzeImage
\* threw before its await), with pendingMsg the error
\* call.invoked: the providers whose analyzeImage this call has called
\* call.attempts: history of the attempts that have settled, each
\* [provider, ok, result, msg]: what analyzeImage returned or threw
IdleCall ==
    [pc |-> "idle", image |-> "", idx |-> 0, pending |-> "none",
     pendingMsg |-> "", errors |-> <<>>, invoked |-> <<>>, attempts |-> <<>>,
     result |-> NoResult]

NoValidation == [input |-> NoFields, output |-> NoResult, done |-> FALSE]

\* testProviders: pc, idx, pending, pendingMsg as in a call; invoked the
\* providers called; results the report built so far, returned when pc is
\* "returned".  info: what getProviderInfo returned last
IdleTest ==
    [pc |-> "idle", image |-> "", idx |-> 0, pending |-> "none", pendingMsg |-> "",
     invoked |-> <<>>, results |-> <<>>]

NoInfo == [asked |-> FALSE, primary |-> "", fallback |-> "", available |-> <<>>, total |-> 0]

NoDiagnostics == [test |-> IdleTest, info |-> NoInfo]

\* no overlapping calls are modelled
NoCalls == <<>>

\* the status page is not mounted
NoPage == [mounted |-> FALSE]

(***************************************************************************)
(* analyzeCarriageImage.                                                   *)
(***************************************************************************)
RECURSIVE JoinErrorsReversed(_)
\* variant: the entries joined last to first
JoinErrorsReversed(errors) ==
    IF Len(errors) = 0 THEN ""
    ELSE IF Len(errors) = 1 THEN errors[1].provider \o ": " \o errors[1].error
    ELSE JoinErrorsReversed(Tail(errors)) \o "; "
             \o errors[1].provider \o ": " \o errors[1].error

RECURSIVE JoinErrors(_)
\* errors.map(e => `${e.provider}: ${e.error}`).join('; ')
JoinErrors(errors) ==
    IF Len(errors) = 0 THEN ""
    ELSE IF Len(errors) = 1 THEN errors[1].provider \o ": " \o errors[1].error
    ELSE errors[1].provider \o ": " \o errors[1].error \o "; " \o JoinErrors(Tail(errors))

\* "Return fallback result instead of throwing"
DegradedResult(errors) ==
    [status |-> "moderate", capacity |-> JNum(50), confidence |-> JNum(0),
     reasoning |-> JStr("All providers failed. Errors: " \o JoinErrors(errors))]

\* variant: the value is computed but the promise is never resolved
ReturnResultNeverResolves(c, result) ==
    [c EXCEPT !.pending = "none", !.pendingMsg = "", !.result = result]

\* return <value>
ReturnResult(c, result) ==
    [c EXCEPT !.pc = "returned", !.pending = "none", !.pendingMsg = "", !.result = result]

\* the loop body up to the await: provider.analyzeImage(imageUrl) on list[i]
StartAttempt(c, list, i, ptr, e) ==
    LET pre == analyzeImagePrefix(list[i], c.image, ptr, e)
    IN  [call |-> [c EXCEPT !.pc = "awaiting", !.idx = i, !.pending = pre.st,
                            !.pendingMsg = pre.msg,
                            !.invoked = Append(@, list[i])],
         ptr |-> pre.ptr]

\* variant: the code after the loop throws, as the JSDoc's @throws says
TryFromThrowsAfterLoop(c, list, i, ptr, e) ==
    IF i <= Len(list) THEN StartAttempt(c, list, i, ptr, e)
    ELSE [call |-> [c EXCEPT !.pc = "raised", !.pending = "none", !.pendingMsg = ""],
          ptr |-> ptr]

\* the loop from index i on: the next attempt, or the code after the loop
TryFrom(c, list, i, ptr, e) ==
    IF i <= Len(list) THEN StartAttempt(c, list, i, ptr, e)
    ELSE [call |-> ReturnResult(c, DegradedResult(c.errors)), ptr |-> ptr]

\* variant: the result is kept but the loop goes on (a missing return)
OnSuccessContinues(c, list, result, ptr, e) ==
    TryFrom([c EXCEPT !.result = result], list, c.idx + 1, ptr, e)

\* lines 302-303: the attempt succeeded, return its result
OnSuccess(c, list, result, ptr, e) ==
    [call |-> ReturnResult(c, result), ptr |-> ptr]

\* variant: the catch block skips the provider after the failed one
CatchFailureSkipsNext(c, list, msg, ptr, e) ==
    LET failed == [c EXCEPT !.errors =
                       Append(@, [provider |-> getName(list[c.idx]), error |-> msg])]
    IN  TryFrom(failed, list, c.idx + 2, ptr, e)

\* variant: the catch block tries the failed provider once more
CatchFailureRetriesSame(c, list, msg, ptr, e) ==
    LET failed == [c EXCEPT !.errors =
                       Append(@, [provider |-> getName(list[c.idx]), error |-> msg])]
    IN  IF Len(c.invoked) < Len(list) + 1
        THEN TryFrom(failed, list, c.idx, ptr, e)
        ELSE TryFrom(failed, list, c.idx + 1, ptr, e)

\* the catch block: record the failure, go on with the next provider
CatchFailure(c, list, msg, ptr, e) ==
    LET failed == [c EXCEPT !.errors =
                       Append(@, [provider |-> getName(list[c.idx]), error |-> msg])]
    IN  TryFrom(failed, list, c.idx + 1, ptr, e)

(***************************************************************************)
(* Actions.                                                                *)
(***************************************************************************)
Init ==
    /\ phase = "boot"
    /\ loadError = ""
    /\ env \in Environments
    /\ providers = <<>>
    /\ currentKeyIndex = 0
    /\ call = IdleCall
    /\ validation = NoValidation
    /\ invocations = <<>>
    /\ diag = NoDiagnostics
    /\ calls = NoCalls
    /\ ui = NoPage

\* module load: const providers = initializeProviders()
LoadModule ==
    /\ phase = "boot"
    /\ LET r == initializeProviders(env)
       IN  /\ phase' = IF r.ok THEN "ready" ELSE "failed"
           /\ loadError' = r.error
           /\ providers' = r.providers
    /\ UNCHANGED <<env, currentKeyIndex, call, validation, invocations, diag, calls, ui>>

\* analyzeCarriageImage(image) is called: it runs up to its first await
Analyze(image) ==
    /\ phase = "ready"
    /\ call.pc \in {"idle", "returned"}
    /\ LET r == TryFrom([IdleCall EXCEPT !.image = image], providers, 1,
                        currentKeyIndex, env)
       IN  /\ call' = r.call
           /\ currentKeyIndex' = r.ptr
    /\ UNCHANGED <<phase, loadError, env, providers, validation, invocations, diag, calls, ui>>

\* the backend answers the request in flight; analyzeImage and the caller resume
BackendResponds(reply) ==
    /\ call.pc = "awaiting"
    /\ call.pending = "inflight"
    /\ LET out == analyzeImageResume(providers[call.idx], reply)
           settled == [call EXCEPT !.attempts =
                           Append(@, [provider |-> providers[call.idx], ok |-> out.ok,
                                      result |-> out.result, msg |-> out.msg])]
           r == IF out.ok
                THEN OnSuccess(settled, providers, out.result, currentKeyIndex, env)
                ELSE CatchFailure(settled, providers, out.msg, currentKeyIndex, env)
       IN  /\ call' = r.call
           /\ currentKeyIndex' = r.ptr
    /\ UNCHANGED <<phase, loadError, env, providers, validation, invocations, diag, calls, ui>>

\* analyzeImage threw before its await; the caller resumes in its catch block
AttemptRejected ==
    /\ call.pc = "awaiting"
    /\ call.pending = "rejected"
    /\ LET settled == [call EXCEPT !.attempts =
                           Append(@, [provider |-> providers[call.idx], ok |-> FALSE,
                                      result |-> NoResult, msg |-> call.pendingMsg])]
           r == CatchFailure(settled, providers, settled.pendingMsg, currentKeyIndex, env)
       IN  /\ call' = r.call
           /\ currentKeyIndex' = r.ptr
    /\ UNCHANGED <<phase, loadError, env, providers, validation, invocations, diag, calls, ui>>

Next ==
    \/ LoadModule
    \/ \E image \in ImageInputs : Analyze(image)
    \/ \E reply \in BackendReplies : BackendResponds(reply)
    \/ AttemptRejected

Spec == Init /\ [][Next]_vars

(***************************************************************************)
(* validateResult on its own: the parsed object is drawn from bounded sets.*)
(***************************************************************************)
StatusInputs ==
    {JUndefined, JNum(3), JStr(""), JStr("empty"), JStr("few people"),
     JStr("few_people"), JStr("moderate"), JStr("full"), JStr("FULL")}

CapacityInputs ==
    {JUndefined, JNum(-10), JNum(0), JNum(1), JNum(50), JNum(120), JNum(150),
     JNum(151), JNum(200), JStr("85%"), JStr("120")}

ConfidenceInputs ==
    {JUndefined, JNum(-10), JNum(0), JNum(70), JNum(90), JNum(100), JNum(101),
     JStr("85%")}

\* absent, empty, a model's text, the text of an all-failed result
ReasoningInputs ==
    {JUndefined, JStr(""), JStr("crowded"),
     DegradedResult(<<[provider |-> "SambaNova", error |-> "timeout"]>>).reasoning}

ParsedObjects ==
    [status : StatusInputs, capacity : CapacityInputs,
     confidence : ConfidenceInputs, reasoning : ReasoningInputs]

\* the README's configuration: one SambaNova key, AWS credentials
DocumentedEnvironment ==
    [AI_PROVIDER |-> "sambanova", AI_FALLBACK_PROVIDER |-> "",
     SAMBANOVA_API_KEYS |-> {1}, AWS_CREDENTIALS |-> TRUE,
     OPENAI_API_KEY |-> FALSE, OPENAI_ENABLED |-> TRUE]

InitValidate ==
    /\ phase = "boot"
    /\ loadError = ""
    /\ env = DocumentedEnvironment
    /\ providers = <<>>
    /\ currentKeyIndex = 0
    /\ call = IdleCall
    /\ validation \in [input : ParsedObjects, output : {NoResult}, done : {FALSE}]
    /\ invocations = <<>>
    /\ diag = NoDiagnostics
    /\ calls = NoCalls
    /\ ui = NoPage

\* this.validateResult(result)
Validate ==
    /\ ~validation.done
    /\ validation' = [validation EXCEPT !.output = validateResult(validation.input),
                                        !.done = TRUE]
    /\ UNCHANGED <<phase, loadError, env, providers, currentKeyIndex, call, invocations,
                   diag, calls, ui>>

NextValidate == Validate

SpecValidate == InitValidate /\ [][NextValidate]_vars

(***************************************************************************)
(* analyzeImage called on a provider instance directly (it is public: the  *)
(* analyzer's loop and testProviders are two of its callers).  Calls may   *)
(* overlap: each runs to its await in one step and resumes when its        *)
(* request settles.                                                        *)
(***************************************************************************)
MaxInvocations == 5

MaxTextLen == 5

\* the providers the registry ships with
ShippedProviders == {"sambanova", "bedrock"}

NoReply == [kind |-> "none", text |-> <<>>, fields |-> NoFields, msg |-> ""]

\* an invocation: what it was called with, how far it got (st is "inflight",
\* "resolved" or "rejected"), the pointer before and after its synchronous
\* part, the requests it sent, and what it returned or threw
StartedInvocation(p, image, ptr, pre) ==
    [provider |-> p, image |-> image, st |-> pre.st, stage |-> pre.stage,
     key |-> pre.key, before |-> ptr, after |-> pre.ptr,
     requests |-> IF pre.st = "inflight" THEN 1 ELSE 0,
     reply |-> NoReply, result |-> NoResult, msg |-> pre.msg]

SettledInvocation(inv, reply, out) ==
    [inv EXCEPT !.st = IF out.ok THEN "resolved" ELSE "rejected",
                !.stage = out.stage, !.reply = reply,
                !.result = out.result, !.msg = out.msg]

\* provider.analyzeImage(image): runs up to its await
InvokeAnalyzeImage(p, image) ==
    /\ Len(invocations) < MaxInvocations
    /\ LET pre == analyzeImagePrefix(p, image, currentKeyIndex, env)
       IN  /\ invocations' =
                  Append(invocations, StartedInvocation(p, image, currentKeyIndex, pre))
           /\ currentKeyIndex' = pre.ptr
    /\ UNCHANGED <<phase, loadError, env, providers, call, validation, diag, calls, ui>>

\* generateText of invocation i settles and that analyzeImage runs to its end
RequestSettles(i, reply) ==
    /\ i \in 1..Len(invocations)
    /\ invocations[i].st = "inflight"
    /\ LET out == analyzeImageResume(invocations[i].provider, reply)
       IN  invocations' =
               [invocations EXCEPT ![i] = SettledInvocation(@, reply, out)]
    /\ UNCHANGED <<phase, loadError, env, providers, currentKeyIndex, call, validation,
                   diag, calls, ui>>

(***************************************************************************)
(* One invocation of either shipped provider, over every reply text of up  *)
(* to MaxTextLen tokens.                                                   *)
(***************************************************************************)
ReplyTokens == {"{", "}", "prose", "body"}

ReplyTexts == UNION {[1..n -> ReplyTokens] : n \in 0..MaxTextLen}

\* the members the prompt asks for, as a model fills them in
RequestedFields == ParsedFields(JStr("full"), JNum(120), JNum(90), JStr("crowded"))

ProviderReplies ==
    BackendReplies \cup {TextReply(text, RequestedFields) : text \in ReplyTexts}

\* no SambaNova key or two of them, AWS credentials or none
ProviderEnvironments ==
    [AI_PROVIDER : {""}, AI_FALLBACK_PROVIDER : {""},
     SAMBANOVA_API_KEYS : {{}, {1, 2}}, AWS_CREDENTIALS : BOOLEAN,
     OPENAI_API_KEY : {FALSE}, OPENAI_ENABLED : {TRUE}]

InitProvider ==
    /\ phase = "boot"
    /\ loadError = ""
    /\ env \in ProviderEnvironments
    /\ providers = <<>>
    /\ currentKeyIndex = 0
    /\ call = IdleCall
    /\ validation = NoValidation
    /\ invocations = <<>>
    /\ diag = NoDiagnostics
    /\ calls = NoCalls
    /\ ui = NoPage

NextProvider ==
    \/ \E p \in ShippedProviders, image \in ImageInputs :
           Len(invocations) = 0 /\ InvokeAnalyzeImage(p, image)
    \/ \E reply \in ProviderReplies : RequestSettles(1, reply)

SpecProvider == InitProvider /\ [][NextProvider]_vars

(***************************************************************************)
(* Up to MaxInvocations overlapping invocations of the SambaNova provider, *)
(* over every pool of keys.                                                *)
(***************************************************************************)
RotationImages == {"data:image/jpeg;base64,AAAA", "frame.jpg"}

\* the request fails, the text has no braces, the braces hold no JSON, a good reply
RotationReplies ==
    { ErrorReply("timeout"),
      TextReply(<<"prose">>, NoFields),
      TextReply(<<"{", "prose", "}">>, NoFields),
      TextReply(<<"prose", "{", "body", "}", "prose">>, RequestedFields) }

RotationEnvironments ==
    [AI_PROVIDER : {""}, AI_FALLBACK_PROVIDER : {""},
     SAMBANOVA_API_KEYS : SUBSET (1..MaxKeyIndex), AWS_CREDENTIALS : {FALSE},
     OPENAI_API_KEY : {FALSE}, OPENAI_ENABLED : {TRUE}]

InitRotation ==
    /\ phase = "boot"
    /\ loadError = ""
    /\ env \in RotationEnvironments
    /\ providers = <<>>
    /\ currentKeyIndex = 0
    /\ call = IdleCall
    /\ validation = NoValidation
    /\ invocations = <<>>
    /\ diag = NoDiagnostics
    /\ calls = NoCalls
    /\ ui = NoPage

NextRotation ==
    \/ \E image \in RotationImages : InvokeAnalyzeImage("sambanova", image)
    \/ \E i \in 1..MaxInvocations, reply \in RotationReplies : RequestSettles(i, reply)

SpecRotation == InitRotation /\ [][NextRotation]_vars

(***************************************************************************)
(* testProviders and getProviderInfo, next to analyzeCarriageImage.        *)
(***************************************************************************)
\* testProviders' loop from index i on: the next attempt, or return results
TestFrom(t, list, i, ptr, e) ==
    IF i <= Len(list)
    THEN LET pre == analyzeImagePrefix(list[i], t.image, ptr, e)
         IN  [test |-> [t EXCEPT !.pc = "awaiting", !.idx = i, !.pending = pre.st,
                                 !.pendingMsg = pre.msg,
                                 !.invoked = Append(@, list[i])],
              ptr |-> pre.ptr]
    ELSE [test |-> [t EXCEPT !.pc = "returned", !.pending = "none", !.pendingMsg = ""],
          ptr |-> ptr]

\* results.push({provider, success: true, result})
SuccessEntry(p, result) ==
    [provider |-> getName(p), success |-> TRUE, result |-> result, error |-> ""]

\* results.push({provider, success: false, error})
FailureEntry(p, msg) ==
    [provider |-> getName(p), success |-> FALSE, result |-> NoResult, error |-> msg]

\* variant: the loop ends at the first provider that fails
TestRecordStopsOnFailure(t, list, entry, ptr, e) ==
    IF entry.success
    THEN TestFrom([t EXCEPT !.results = Append(@, entry)], list, t.idx + 1, ptr, e)
    ELSE TestFrom([t EXCEPT !.results = Append(@, entry)], list, Len(list) + 1, ptr, e)

\* the entry is pushed and the loop goes on with the next provider
TestRecord(t, list, entry, ptr, e) ==
    TestFrom([t EXCEPT !.results = Append(@, entry)], list, t.idx + 1, ptr, e)

\* variant: the list is reversed in place while it is read
providersAfterReverse(list) == [i \in 1..Len(list) |-> list[Len(list) + 1 - i]]

\* providers.map(...) builds a new array and leaves providers as it is
providersAfterMap(list) == list

\* getProviderInfo's return value
ProviderInfo(list, e) ==
    [asked |-> TRUE, primary |-> getPrimaryProvider(e), fallback |-> getFallbackProvider(e),
     available |-> [i \in 1..Len(list) |->
                       [name |-> getName(list[i]), configured |-> isConfigured(list[i], e),
                        enabled |-> isEnabled(list[i], e)]],
     total |-> Len(list)]

\* testProviders(image) is called: it runs up to its first await
TestProviders(image) ==
    /\ phase = "ready"
    /\ diag.test.pc \in {"idle", "returned"}
    /\ LET r == TestFrom([IdleTest EXCEPT !.image = image], providers, 1,
                         currentKeyIndex, env)
       IN  /\ diag' = [diag EXCEPT !.test = r.test]
           /\ currentKeyIndex' = r.ptr
    /\ UNCHANGED <<phase, loadError, env, providers, call, validation, invocations,
                   calls, ui>>

\* the request of testProviders' current attempt settles
TestBackendResponds(reply) ==
    /\ diag.test.pc = "awaiting"
    /\ diag.test.pending = "inflight"
    /\ LET p == providers[diag.test.idx]
           out == analyzeImageResume(p, reply)
           entry == IF out.ok THEN SuccessEntry(p, out.result)
                    ELSE FailureEntry(p, out.msg)
           r == TestRecord(diag.test, providers, entry, currentKeyIndex, env)
       IN  /\ diag' = [diag EXCEPT !.test = r.test]
           /\ currentKeyIndex' = r.ptr
    /\ UNCHANGED <<phase, loadError, env, providers, call, validation, invocations,
                   calls, ui>>

\* analyzeImage threw before its await; testProviders resumes in its catch block
TestAttemptRejected ==
    /\ diag.test.pc = "awaiting"
    /\ diag.test.pending = "rejected"
    /\ LET entry == FailureEntry(providers[diag.test.idx], diag.test.pendingMsg)
           r == TestRecord(diag.test, providers, entry, currentKeyIndex, env)
       IN  /\ diag' = [diag EXCEPT !.test = r.test]
           /\ currentKeyIndex' = r.ptr
    /\ UNCHANGED <<phase, loadError, env, providers, call, validation, invocations,
                   calls, ui>>

\* getProviderInfo()
GetProviderInfo ==
    /\ phase = "ready"
    /\ diag' = [diag EXCEPT !.info = ProviderInfo(providers, env)]
    /\ providers' = providersAfterMap(providers)
    /\ UNCHANGED <<phase, loadError, env, currentKeyIndex, call, validation, invocations,
                   calls, ui>>

DiagnosticImages == {"data:image/jpeg;base64,AAAA", "frame.jpg"}

\* the request fails, the text holds no JSON, a good reply
DiagnosticReplies ==
    { ErrorReply("timeout"),
      TextReply(<<"prose">>, NoFields),
      TextReply(<<"prose", "{", "body", "}", "prose">>, RequestedFields) }

DiagnosticEnvironments ==
    [AI_PROVIDER : {"", "sambanova"}, AI_FALLBACK_PROVIDER : {"", "openai"},
     SAMBANOVA_API_KEYS : {{}, {1, 2}}, AWS_CREDENTIALS : BOOLEAN,
     OPENAI_API_KEY : BOOLEAN, OPENAI_ENABLED : {TRUE}]

InitDiagnostics ==
    /\ phase = "boot"
    /\ loadError = ""
    /\ env \in DiagnosticEnvironments
    /\ providers = <<>>
    /\ currentKeyIndex = 0
    /\ call = IdleCall
    /\ validation = NoValidation
    /\ invocations = <<>>
    /\ diag = NoDiagnostics
    /\ calls = NoCalls
    /\ ui = NoPage

NextDiagnostics ==
    \/ LoadModule
    \/ \E image \in DiagnosticImages : Analyze(image)
    \/ \E reply \in DiagnosticReplies : BackendResponds(reply)
    \/ AttemptRejected
    \/ \E image \in DiagnosticImages : TestProviders(image)
    \/ \E reply \in DiagnosticReplies : TestBackendResponds(reply)
    \/ TestAttemptRejected
    \/ GetProviderInfo

SpecDiagnostics == InitDiagnostics /\ [][NextDiagnostics]_vars

(***************************************************************************)
(* analyzeCarriageImage when every remote call completes: a request in     *)
(* flight is eventually answered or fails, and a rejected promise's        *)
(* continuation is eventually run by the event loop.                       *)
(***************************************************************************)
NextTermination ==
    \/ LoadModule
    \/ \E image \in DiagnosticImages : Analyze(image)
    \/ \E reply \in DiagnosticReplies : BackendResponds(reply)
    \/ AttemptRejected

SpecTermination ==
    /\ InitDiagnostics
    /\ [][NextTermination]_vars
    /\ WF_vars(\E reply \in DiagnosticReplies : BackendResponds(reply))
    /\ WF_vars(AttemptRejected)

(***************************************************************************)
(* Overlapping analyzeCarriageImage calls (one per frame-capture loop):    *)
(* each has its own locals, all use the same provider instances.           *)
(***************************************************************************)
MaxCalls == 2

CallIds == 1..MaxCalls

\* variant: errors is a module-level array, so a call starts with what the
\* other calls have recorded
newErrorsModuleLevel(cs) ==
    IF MaxCalls >= 2 THEN cs[1].errors \o cs[2].errors ELSE cs[1].errors

\* const errors = []: a local of the call
newErrors(cs) == <<>>

\* call number id is made: it runs up to its first await
AnalyzeConcurrently(id, image) ==
    /\ phase = "ready"
    /\ calls[id].pc \in {"idle", "returned"}
    /\ LET r == TryFrom([IdleCall EXCEPT !.image = image, !.errors = newErrors(calls)],
                        providers, 1, currentKeyIndex, env)
       IN  /\ calls' = [calls EXCEPT ![id] = r.call]
           /\ currentKeyIndex' = r.ptr
    /\ UNCHANGED <<phase, loadError, env, providers, call, validation, invocations,
                   diag, ui>>

\* the request of call id settles; its analyzeImage and the call resume
CallBackendResponds(id, reply) ==
    /\ calls[id].pc = "awaiting"
    /\ calls[id].pending = "inflight"
    /\ LET c == calls[id]
           out == analyzeImageResume(providers[c.idx], reply)
           settled == [c EXCEPT !.attempts =
                           Append(@, [provider |-> providers[c.idx], ok |-> out.ok,
                                      result |-> out.result, msg |-> out.msg])]
           r == IF out.ok
                THEN OnSuccess(settled, providers, out.result, currentKeyIndex, env)
                ELSE CatchFailure(settled, providers, out.msg, currentKeyIndex, env)
       IN  /\ calls' = [calls EXCEPT ![id] = r.call]
           /\ currentKeyIndex' = r.ptr
    /\ UNCHANGED <<phase, loadError, env, providers, call, validation, invocations,
                   diag, ui>>

\* analyzeImage of call id threw before its await; the call resumes in its catch
CallAttemptRejected(id) ==
    /\ calls[id].pc = "awaiting"
    /\ calls[id].pending = "rejected"
    /\ LET c == calls[id]
           settled == [c EXCEPT !.attempts =
                           Append(@, [provider |-> providers[c.idx], ok |-> FALSE,
                                      result |-> NoResult, msg |-> c.pendingMsg])]
           r == CatchFailure(settled, providers, c.pendingMsg, currentKeyIndex, env)
       IN  /\ calls' = [calls EXCEPT ![id] = r.call]
           /\ currentKeyIndex' = r.ptr
    /\ UNCHANGED <<phase, loadError, env, providers, call, validation, invocations,
                   diag, ui>>

\* two SambaNova keys and AWS credentials; SambaNova or Bedrock first
ConcurrentEnvironments ==
    [AI_PROVIDER : {"", "sambanova"}, AI_FALLBACK_PROVIDER : {""},
     SAMBANOVA_API_KEYS : {{1, 2}}, AWS_CREDENTIALS : {TRUE},
     OPENAI_API_KEY : {FALSE}, OPENAI_ENABLED : {TRUE}]

InitConcurrent ==
    /\ phase = "boot"
    /\ loadError = ""
    /\ env \in ConcurrentEnvironments
    /\ providers = <<>>
    /\ currentKeyIndex = 0
    /\ call = IdleCall
    /\ validation = NoValidation
    /\ invocations = <<>>
    /\ diag = NoDiagnostics
    /\ calls = [id \in CallIds |-> IdleCall]
    /\ ui = NoPage

NextConcurrent ==
    \/ LoadModule
    \/ \E id \in CallIds, image \in DiagnosticImages : AnalyzeConcurrently(id, image)
    \/ \E id \in CallIds, reply \in DiagnosticReplies : CallBackendResponds(id, reply)
    \/ \E id \in CallIds : CallAttemptRejected(id)

SpecConcurrent == InitConcurrent /\ [][NextConcurrent]_vars

(***************************************************************************)
(* The status page (CarriageStatusScreen) and its VideoAnalyzer: carriage  *)
(* selection, the polling timers, and the analyses they send.              *)
(***************************************************************************)
MaxCarriage == 3

MaxRequests == 2

\* the carriages with a video, CARRIAGE_VIDEOS' keys from 1 on
Carriages == 1..MaxCarriage

\* useState<CarriageData[]>'s initial value; writer is the request whose
\* result the entry shows, 0 for the initial value
InitialCarriages ==
    [c \in Carriages |->
        [status |-> CASE c = 1 -> "moderate" [] c = 2 -> "full" [] c = 3 -> "moderate"
                      [] c = 4 -> "full" [] OTHER -> "few people",
         capacity |-> CASE c = 1 -> 60 [] c = 2 -> 80 [] c = 3 -> 60
                        [] c = 4 -> 120 [] OTHER -> 30,
         writer |-> 0]]

\* what analyzeImage(frameData) resolves with
ActionResults == {[status |-> "full", capacity |-> 120], [status |-> "empty", capacity |-> 10]}

NoActionResult == [status |-> "", capacity |-> 0]

\* selected: currentCarriage / currentCarriageRef.current; hasVideo and
\* isAnalyzing: the VideoAnalyzer's state (the timers run when both hold);
\* requests: the analyzeCurrentFrame calls that sent a frame, in the order
\* sent, each with the carriage its frame shows
MountedPage ==
    [mounted |-> TRUE, selected |-> 3, hasVideo |-> FALSE, isAnalyzing |-> FALSE,
     carriages |-> InitialCarriages, requests |-> <<>>]

\* the video of the selected carriage starts playing: handlePlaying
VideoPlaying ==
    /\ ui.mounted
    /\ ~ui.hasVideo
    /\ ui' = [ui EXCEPT !.hasVideo = TRUE, !.isAnalyzing = TRUE]
    /\ UNCHANGED <<phase, loadError, env, providers, currentKeyIndex, call, validation,
                   invocations, diag, calls>>

\* handleCarriageClick(c), and the video-load effect the new videoUrl triggers
CarriageClick(c) ==
    /\ ui.mounted
    /\ c # ui.selected
    /\ ui' = [ui EXCEPT !.selected = c, !.hasVideo = FALSE, !.isAnalyzing = FALSE]
    /\ UNCHANGED <<phase, loadError, env, providers, currentKeyIndex, call, validation,
                   invocations, diag, calls>>

\* the timeout or the interval fires: analyzeCurrentFrame up to its await
TimerFires ==
    /\ ui.mounted
    /\ ui.hasVideo /\ ui.isAnalyzing
    /\ Len(ui.requests) < MaxRequests
    /\ ui' = [ui EXCEPT !.requests =
                  Append(@, [frame |-> ui.selected, st |-> "pending",
                             target |-> 0, result |-> NoActionResult])]
    /\ UNCHANGED <<phase, loadError, env, providers, currentKeyIndex, call, validation,
                   invocations, diag, calls>>

\* handleAnalysis(result): the carriage currentCarriageRef.current names is updated
handleAnalysis(page, i, result) ==
    [page EXCEPT !.carriages[page.selected] =
                     [status |-> result.status, capacity |-> result.capacity, writer |-> i],
                 !.requests[i] = [@ EXCEPT !.st = "done", !.target = page.selected,
                                           !.result = result]]

\* the analysis of request i resolves: onAnalysis(result)
AnalysisResolves(i, result) ==
    /\ ui.mounted
    /\ i \in 1..Len(ui.requests)
    /\ ui.requests[i].st = "pending"
    /\ ui' = handleAnalysis(ui, i, result)
    /\ UNCHANGED <<phase, loadError, env, providers, currentKeyIndex, call, validation,
                   invocations, diag, calls>>

\* the analysis of request i rejects: the catch block logs it
AnalysisRejects(i) ==
    /\ ui.mounted
    /\ i \in 1..Len(ui.requests)
    /\ ui.requests[i].st = "pending"
    /\ ui' = [ui EXCEPT !.requests[i].st = "failed"]
    /\ UNCHANGED <<phase, loadError, env, providers, currentKeyIndex, call, validation,
                   invocations, diag, calls>>

InitPage ==
    /\ phase = "boot"
    /\ loadError = ""
    /\ env = DocumentedEnvironment
    /\ providers = <<>>
    /\ currentKeyIndex = 0
    /\ call = IdleCall
    /\ validation = NoValidation
    /\ invocations = <<>>
    /\ diag = NoDiagnostics
    /\ calls = NoCalls
    /\ ui = MountedPage

NextPage ==
    \/ VideoPlaying
    \/ \E c \in Carriages : CarriageClick(c)
    \/ TimerFires
    \/ \E i \in 1..MaxRequests, result \in ActionResults : AnalysisResolves(i, result)
    \/ \E i \in 1..MaxRequests : AnalysisRejects(i)

SpecPage == InitPage /\ [][NextPage]_vars

(***************************************************************************)
(* Properties.                                                             *)
(***************************************************************************)
Range(seq) == {seq[i] : i \in 1..Len(seq)}

RegistryIndex(p) == CHOOSE i \in 1..Len(PROVIDER_REGISTRY) : PROVIDER_REGISTRY[i] = p

AllAttemptsFailed ==
    /\ call.pc = "returned"
    /\ Len(call.attempts) = Len(providers)
    /\ \A k \in 1..Len(call.attempts) : ~call.attempts[k].ok

\* C1: providers are tried in list order from the head of the list; a call
\* whose attempt k succeeded has returned that attempt's result with exactly
\* k providers invoked (none after the one that succeeded), and a failed
\* attempt is followed by the invocation of the next provider of the list.
FirstSuccessReturned ==
    call.pc # "idle" =>
        /\ Len(call.attempts) <= Len(call.invoked)
        /\ Len(call.invoked) <= Len(providers)
        /\ \A k \in 1..Len(call.invoked) : call.invoked[k] = providers[k]
        /\ \A k \in 1..Len(call.attempts) :
              /\ call.attempts[k].provider = providers[k]
              /\ call.attempts[k].ok =>
                    /\ call.pc = "returned"
                    /\ call.result = call.attempts[k].result
                    /\ Len(call.invoked) = k
              /\ (~call.attempts[k].ok /\ k < Len(providers)) =>
                    Len(call.invoked) > k

\* the first of three providers succeeded: the other two were not invoked
FirstSuccessReturnedWitness ==
    /\ call.pc = "returned"
    /\ Len(providers) = 3
    /\ Len(call.attempts) = 1
    /\ call.attempts[1].ok
    /\ call.invoked = <<providers[1]>>

\* C2: with the list P1 (primary), P2 (explicit fallback), P3 (registry
\* only), a call in which P1 failed and the next attempt succeeded returns
\* exactly P2's result, has invoked P1 then P2, once each, and never P3.
FallbackOrderScenario ==
    LET P1 == getPrimaryProvider(env)
        P2 == getFallbackProvider(env)
    IN  ( /\ phase = "ready"
          /\ Len(providers) = 3
          /\ providers[1] = P1
          /\ providers[2] = P2
          /\ call.pc = "returned"
          /\ Len(call.attempts) >= 2
          /\ ~call.attempts[1].ok
          /\ call.attempts[2].ok )
        => /\ call.attempts[1].provider = P1
           /\ call.attempts[2].provider = P2
           /\ call.result = call.attempts[2].result
           /\ call.invoked = <<P1, P2>>
           /\ providers[3] \notin Range(call.invoked)

\* P1 = openai failed, P2 = sambanova answered, P3 = bedrock was left alone
FallbackOrderScenarioWitness ==
    /\ providers = <<"openai", "sambanova", "bedrock">>
    /\ env.AI_PROVIDER = "openai"
    /\ env.AI_FALLBACK_PROVIDER = "sambanova"
    /\ call.pc = "returned"
    /\ Len(call.attempts) = 2
    /\ ~call.attempts[1].ok
    /\ call.attempts[2].ok
    /\ call.result = call.attempts[2].result
    /\ call.invoked = <<"openai", "sambanova">>

RECURSIVE EntryList(_)
\* "<providerName>: <errorMessage>" of each settled attempt, joined by "; "
EntryList(attempts) ==
    IF Len(attempts) = 0 THEN ""
    ELSE getName(attempts[1].provider) \o ": " \o attempts[1].msg
            \o (IF Len(attempts) > 1 THEN "; " \o EntryList(Tail(attempts)) ELSE "")

SambaNovaTimeoutBedrockBadKey ==
    /\ AllAttemptsFailed
    /\ providers = <<"sambanova", "bedrock">>
    /\ call.attempts[1].msg = "SambaNova analysis failed: timeout"
    /\ call.attempts[2].msg = "AWS Bedrock analysis failed: bad key"

\* C4 as stated: when every provider failed, the reasoning is the entries
\* "<providerName>: <errorMessage>" joined by "; " and nothing else.
ReasoningIsEntriesOnly ==
    AllAttemptsFailed => call.result.reasoning = JStr(EntryList(call.attempts))

\* C4 as amended: when every provider failed, the reasoning is the prefix
\* "All providers failed. Errors: " followed by the entries
\* "<providerName>: <errorMessage>", one per provider in list order, joined
\* by "; ".
ReasoningIsPrefixedEntries ==
    /\ AllAttemptsFailed =>
          call.result.reasoning =
              JStr("All providers failed. Errors: " \o EntryList(call.attempts))
    /\ SambaNovaTimeoutBedrockBadKey =>
          call.result.reasoning.s =
              "All providers failed. Errors: SambaNova: SambaNova analysis failed: timeout; AWS Bedrock: AWS Bedrock analysis failed: bad key"

ReasoningIsPrefixedEntriesWitness ==
    /\ SambaNovaTimeoutBedrockBadKey
    /\ call.result.reasoning.t = "string"

\* C5: every result analyzeCarriageImage returns has a status among the four
\* congestion levels, a capacity within [0, 150] and a confidence within
\* [0, 100], whatever the fields of the backend's reply held.
ResultContractHolds ==
    call.pc = "returned" =>
        /\ call.result.status \in Range(validStatuses)
        /\ call.result.capacity.t = "number"
        /\ call.result.capacity.n \in 0..150
        /\ call.result.confidence.t = "number"
        /\ call.result.confidence.n \in 0..100

NoneUsable ==
    \A p \in Registered : ~(isConfigured(p, env) /\ isEnabled(p, env))

\* C6: if no registered provider is both configured and enabled, module load
\* fails with an error and the analyzer is never ready; a ready analyzer, and
\* so every analyzeCarriageImage call, has at least one provider in its list.
NoAnalyzeOnEmptyList ==
    /\ (phase # "boot" /\ NoneUsable) => (phase = "failed" /\ loadError # "")
    /\ phase = "ready" => Len(providers) >= 1
    /\ call.pc # "idle" =>
          /\ phase = "ready"
          /\ Len(providers) >= 1
          /\ Len(call.invoked) >= 1

\* module load has failed for want of a usable provider, with the primary
\* registered and its credentials missing
NoAnalyzeOnEmptyListWitness ==
    /\ phase = "failed"
    /\ NoneUsable
    /\ getPrimaryProvider(env) \in Registered
    /\ loadError = "No AI providers configured. Please set up at least one provider in .env.local"
    /\ call.pc = "idle"

\* C7: whatever the primary selector, the fallback selector and the
\* providers' flags, the list built at module load names no provider twice.
NoDuplicateProviders ==
    phase = "ready" =>
        \A i, j \in 1..Len(providers) : providers[i] = providers[j] => i = j

\* the fallback selector names the primary, and all three providers are in
NoDuplicateProvidersWitness ==
    /\ phase = "ready"
    /\ env.AI_PROVIDER # ""
    /\ env.AI_FALLBACK_PROVIDER = env.AI_PROVIDER
    /\ Len(providers) = 3

\* C8: a provider is in the list built at module load if and only if it is
\* registered and its isConfigured() and isEnabled() are both true; an
\* unconfigured or disabled provider is never in it.
ListIsTheUsableProviders ==
    phase = "ready" =>
        /\ Range(providers) \subseteq Registered
        /\ \A p \in Registered :
              p \in Range(providers) <=> (isConfigured(p, env) /\ isEnabled(p, env))

\* the primary is configured but disabled, the fallback is unconfigured:
\* neither is in the list
ListIsTheUsableProvidersWitness ==
    /\ phase = "ready"
    /\ env.AI_PROVIDER = "openai"
    /\ env.OPENAI_API_KEY
    /\ ~env.OPENAI_ENABLED
    /\ env.AI_FALLBACK_PROVIDER = "bedrock"
    /\ ~env.AWS_CREDENTIALS
    /\ providers = <<"sambanova">>

\* the place of a provider in the order: the primary, the fallback, the rest
\* by registry position
Rank(p) ==
    IF p = getPrimaryProvider(env) THEN 0
    ELSE IF p = getFallbackProvider(env) THEN 1
    ELSE 1 + RegistryIndex(p)

\* C9: the list is ordered: the primary first (if usable), then the explicit
\* fallback (if set and usable), then the remaining usable providers in
\* registry insertion order.
ListOrder ==
    phase = "ready" =>
        \A i, j \in 1..Len(providers) : i < j => Rank(providers[i]) < Rank(providers[j])

\* the fallback, registered last, comes before a provider registered earlier
ListOrderWitness ==
    /\ phase = "ready"
    /\ env.AI_PROVIDER = "sambanova"
    /\ env.AI_FALLBACK_PROVIDER = "openai"
    /\ providers = <<"sambanova", "openai", "bedrock">>

StatusOf(v, levels) ==
    IF v.t = "string" /\ v.s \in levels THEN v.s ELSE "moderate"

\* C10 as stated: validateResult maps every missing or unrecognized status
\* to moderate and passes empty, few_people, moderate, full through unchanged.
StatusPassThroughUnderscore ==
    validation.done =>
        validation.output.status =
            StatusOf(validation.input.status, {"empty", "few_people", "moderate", "full"})

\* C10 as amended: validateResult maps every missing or unrecognized status
\* to moderate and passes empty, "few people" (with a space), moderate, full
\* through unchanged; few_people is unrecognized.
StatusPassThrough ==
    validation.done =>
        validation.output.status =
            StatusOf(validation.input.status, {"empty", "few people", "moderate", "full"})

StatusPassThroughWitness ==
    /\ validation.done
    /\ validation.input.status = JStr("few people")
    /\ validation.output.status = "few people"

\* C11 as stated: for every capacity input, 0 included, validateResult yields
\* max(0, min(150, capacity)) and yields 50 only when the capacity is absent
\* (200 gives 150, -10 gives 0, 0 gives 0, absent gives 50).
CapacityClampedDefaultOnlyWhenAbsent ==
    validation.done =>
        LET c == validation.input.capacity
        IN  /\ c.t = "undefined" => validation.output.capacity = JNum(50)
            /\ c.t = "number" =>
                    validation.output.capacity =
                        JNum(IF c.n > 150 THEN 150 ELSE IF c.n < 0 THEN 0 ELSE c.n)

\* C12 as stated: for every confidence input, 0 included, validateResult
\* yields max(0, min(100, confidence)) and yields 70 only when the confidence
\* is absent (a confidence of 0 stays 0).
ConfidenceClampedDefaultOnlyWhenAbsent ==
    validation.done =>
        LET c == validation.input.confidence
        IN  /\ c.t = "undefined" => validation.output.confidence = JNum(70)
            /\ c.t = "number" =>
                    validation.output.confidence =
                        JNum(IF c.n > 100 THEN 100 ELSE IF c.n < 0 THEN 0 ELSE c.n)

\* a result that already satisfies the result contract
IsValidResult(r) ==
    /\ r.status.t = "string"
    /\ r.status.s \in {"empty", "few people", "moderate", "full"}
    /\ r.capacity.t = "number" /\ r.capacity.n \in 0..150
    /\ r.confidence.t = "number" /\ r.confidence.n \in 0..100
    /\ r.reasoning.t = "string" /\ r.reasoning.s # ""

\* C13 as stated: validateResult is idempotent on valid results: a result with
\* a valid status, a capacity in [0, 150] and a confidence in [0, 100] (the
\* boundary 0 and the all-failed result included) comes back field for field.
ValidateIdempotentOnValid ==
    (validation.done /\ IsValidResult(validation.input)) =>
        /\ validation.output.status = validation.input.status.s
        /\ validation.output.capacity = validation.input.capacity
        /\ validation.output.confidence = validation.input.confidence
        /\ validation.output.reasoning = validation.input.reasoning

\* the size of the SambaNova key pool
PoolSize == Len(collectApiKeys(env))

\* the invocations before the i-th that selected a credential
RotatedBefore(i) == {j \in 1..(i - 1) : invocations[j].key # NoKey}

\* the credential indices used, in invocation order
RECURSIVE KeysUsed(_)
KeysUsed(log) ==
    IF Len(log) = 0 THEN <<>>
    ELSE IF log[1].key = NoKey THEN KeysUsed(Tail(log))
    ELSE <<log[1].key>> \o KeysUsed(Tail(log))

PointerWithinPool ==
    isConfigured("sambanova", env) =>
        /\ currentKeyIndex \in 0..(PoolSize - 1)
        /\ \A i \in 1..Len(invocations) :
               invocations[i].key # NoKey => invocations[i].key \in 0..(PoolSize - 1)

\* three keys, the pointer has wrapped to 0 while two requests are in flight
PointerWithinPoolWitness ==
    /\ PoolSize = 3
    /\ currentKeyIndex = 0
    /\ Len(KeysUsed(invocations)) = 3
    /\ Cardinality({i \in 1..Len(invocations) : invocations[i].st = "inflight"}) >= 2

\* the provider's display name, as its error messages spell it
DisplayName(p) == IF p = "sambanova" THEN "SambaNova" ELSE "AWS Bedrock"

StartsWith(str, prefix) ==
    Len(str) >= Len(prefix) /\ SubSeq(str, 1, Len(prefix)) = prefix

EndsWith(str, suffix) ==
    Len(str) >= Len(suffix)
        /\ SubSeq(str, Len(str) - Len(suffix) + 1, Len(str)) = suffix

\* C17: analyzeImage on a provider whose isConfigured() is false fails with a
\* configuration error, without issuing any remote request and without a retry.
UnconfiguredFailsWithoutRequest ==
    \A i \in 1..Len(invocations) :
        LET inv == invocations[i]
        IN  ~isConfigured(inv.provider, env) =>
                /\ inv.st = "rejected"
                /\ inv.requests = 0
                /\ inv.result = NoResult
                /\ StartsWith(inv.msg, DisplayName(inv.provider))
                /\ \/ StartsWith(inv.msg, "SambaNova API key not configured")
                   \/ StartsWith(inv.msg, "AWS Bedrock credentials not configured")

\* the Bedrock provider without AWS credentials was invoked and threw
UnconfiguredFailsWithoutRequestWitness ==
    /\ ~env.AWS_CREDENTIALS
    /\ Len(invocations) = 1
    /\ invocations[1].provider = "bedrock"
    /\ invocations[1].st = "rejected"
    /\ invocations[1].stage = "configuration"

\* the text from its first "{" to its last "}", <<>> if there is no such span
BraceSpan(text) ==
    LET opens == {i \in 1..Len(text) : text[i] = "{"}
        closes == {j \in 1..Len(text) : text[j] = "}"}
    IN  IF \E i \in opens, j \in closes : i < j
        THEN SubSeq(text, CHOOSE i \in opens : \A k \in opens : i <= k,
                          CHOOSE j \in closes : \A k \in closes : j >= k)
        ELSE <<>>

\* the span is a JSON object: the four members, or none
IsJsonObject(span) == span \in {<<"{", "body", "}">>, <<"{", "}">>}

\* every field has been through validateResult (a non-numeric capacity or
\* confidence comes out as NaN, which is of type number)
FullyNormalized(r) ==
    /\ r.status \in {"empty", "few people", "moderate", "full"}
    /\ r.capacity.t \in {"number", "NaN"}
    /\ r.confidence.t \in {"number", "NaN"}
    /\ r.reasoning.t = "string" /\ r.reasoning.s # ""

IsEmbeddedObject(text) ==
    \E i \in 1..(Len(text) - 2) :
        /\ text[i] = "{" /\ text[i + 1] = "body" /\ text[i + 2] = "}"
        /\ \A k \in (1..Len(text)) \ {i, i + 1, i + 2} : text[k] = "prose"

\* C19: parsing takes the substring from the first "{" to the last "}": a
\* reply is parsed exactly when that substring is a JSON object, and a reply
\* embedding the object {full, 120, 90, "crowded"} in brace-free prose
\* normalizes to exactly that result.
ParsesFirstToLastBrace ==
    \A i \in 1..Len(invocations) :
        LET inv == invocations[i]
        IN  (inv.st # "inflight" /\ inv.reply.kind = "text") =>
                /\ inv.st = "resolved" <=>
                       IsJsonObject(BraceSpan(inv.reply.text))
                /\ (IsEmbeddedObject(inv.reply.text)
                        /\ inv.reply.fields = RequestedFields) =>
                       inv.result = [status |-> "full", capacity |-> JNum(120),
                                     confidence |-> JNum(90),
                                     reasoning |-> JStr("crowded")]

\* prose, the object, prose: the result is the object's four members
ParsesFirstToLastBraceWitness ==
    /\ Len(invocations) = 1
    /\ invocations[1].reply.text = <<"prose", "{", "body", "}", "prose">>
    /\ invocations[1].reply.fields = RequestedFields
    /\ invocations[1].st = "resolved"
    /\ invocations[1].result.capacity = JNum(120)

\* C20 as stated: analyzeImage fails with the message "Failed to extract JSON
\* from response" both when the reply has no brace-to-brace substring and
\* when the extracted substring is not valid JSON.
BothParseFailuresReportExtraction ==
    \A i \in 1..Len(invocations) :
        LET inv == invocations[i]
        IN  (inv.st # "inflight" /\ inv.reply.kind = "text"
                /\ ~IsJsonObject(BraceSpan(inv.reply.text))) =>
                /\ inv.st = "rejected"
                /\ EndsWith(inv.msg, "Failed to extract JSON from response")

\* C20 as amended: a reply without a brace-to-brace substring fails with
\* "<name> analysis failed: Failed to extract JSON from response"; a reply
\* whose extracted substring is not valid JSON fails too, with JSON.parse's
\* own syntax-error message behind the same prefix.
ParseFailuresReported ==
    \A i \in 1..Len(invocations) :
        LET inv == invocations[i]
            span == BraceSpan(inv.reply.text)
        IN  (inv.st # "inflight" /\ inv.reply.kind = "text") =>
                /\ span = <<>> =>
                       /\ inv.st = "rejected"
                       /\ inv.msg = DisplayName(inv.provider)
                              \o " analysis failed: Failed to extract JSON from response"
                /\ (span # <<>> /\ ~IsJsonObject(span)) =>
                       /\ inv.st = "rejected"
                       /\ inv.msg = DisplayName(inv.provider)
                              \o " analysis failed: " \o JsonSyntaxErrorMessage
                       /\ ~EndsWith(inv.msg, "Failed to extract JSON from response")

\* two objects in one reply: the span between the outer braces is no JSON,
\* and the error is JSON.parse's
ParseFailuresReportedWitness ==
    /\ Len(invocations) = 1
    /\ invocations[1].reply.text = <<"{", "body", "}", "{", "}">>
    /\ invocations[1].st = "rejected"
    /\ invocations[1].stage = "parsing"

\* C21: within one analyzeCarriageImage call the fallback sequence is
\* strictly sequential: at most one attempt is unsettled at any time,
\* provider i+1 is invoked only after provider i's attempt has failed, and
\* no provider is invoked twice.
StrictlySequential ==
    /\ Len(call.invoked) - Len(call.attempts) \in {0, 1}
    /\ Len(call.invoked) - Len(call.attempts) = 1 <=> call.pc = "awaiting"
    /\ \A i \in 1..(Len(call.invoked) - 1) :
           /\ i <= Len(call.attempts)
           /\ call.attempts[i].provider = call.invoked[i]
           /\ ~call.attempts[i].ok
    /\ \A i, j \in 1..Len(call.invoked) :
           call.invoked[i] = call.invoked[j] => i = j

\* the third provider's request is out, the first two attempts have failed
StrictlySequentialWitness ==
    /\ call.pc = "awaiting"
    /\ call.pending = "inflight"
    /\ Len(call.invoked) = 3
    /\ Len(call.attempts) = 2
    /\ ~call.attempts[1].ok /\ ~call.attempts[2].ok

\* C22: testProviders invokes every provider of the list exactly once
\* whatever the others' outcomes, never raises, and returns one entry per
\* provider in list order: success and the result for a provider that
\* succeeded, failure and the error message for one that failed.
TestReportsEveryProvider ==
    /\ diag.test.pc \in {"idle", "awaiting", "returned"}
    /\ \A i \in 1..Len(diag.test.invoked) : diag.test.invoked[i] = providers[i]
    /\ Len(diag.test.invoked) <= Len(providers)
    /\ diag.test.pc = "returned" =>
           /\ diag.test.invoked = providers
           /\ Len(diag.test.results) = Len(providers)
           /\ \A i \in 1..Len(providers) :
                  LET entry == diag.test.results[i]
                  IN  /\ entry.provider = getName(providers[i])
                      /\ entry.success =>
                             (entry.result # NoResult /\ entry.error = "")
                      /\ ~entry.success =>
                             (entry.result = NoResult /\ entry.error # "")

\* three providers: the first failed, the second succeeded, the third failed
TestReportsEveryProviderWitness ==
    /\ diag.test.pc = "returned"
    /\ Len(providers) = 3
    /\ ~diag.test.results[1].success
    /\ diag.test.results[2].success
    /\ ~diag.test.results[3].success

\* C23: after module load the provider list is never changed:
\* analyzeCarriageImage, testProviders and getProviderInfo leave its
\* membership and order as they are, whatever the providers' outcomes.
ProviderListNeverChanges ==
    [][phase = "ready" => providers' = providers]_vars

\* the head of the list failed in testProviders, getProviderInfo has been
\* called, and analyzeCarriageImage is trying that same head again
ProviderListNeverChangesWitness ==
    /\ diag.info.asked
    /\ diag.test.pc = "returned"
    /\ ~diag.test.results[1].success
    /\ call.pc = "awaiting"
    /\ Len(providers) >= 2
    /\ call.invoked = <<providers[1]>>
    /\ diag.test.results[1].provider = getName(providers[1])

\* the indices 2, 3, ... present without a gap
ContiguousFromTwo(present) ==
    {i \in 2..MaxKeyIndex : \A j \in 2..i : j \in present}

\* the pool holds exactly the indices in S, in increasing order
PoolIs(S) ==
    LET pool == collectApiKeys(env)
    IN  /\ Len(pool) = Cardinality(S)
        /\ {pool[i] : i \in 1..Len(pool)} = S
        /\ \A i \in 1..(Len(pool) - 1) : pool[i] < pool[i + 1]

\* what analyzeImage shows of isConfigured(): it throws the configuration
\* error exactly when isConfigured() is false
ConfiguredAs(b) ==
    /\ isConfigured("sambanova", env) = b
    /\ \A i \in 1..Len(invocations) :
           (invocations[i].stage = "configuration") = ~b

\* C24 as stated: the pool is the base credential (if present) followed by
\* KEY_2, KEY_3, ... up to the first missing index, and isConfigured() is
\* true if and only if at least one credential is present in the environment.
ConfiguredIffAnyCredential ==
    /\ PoolIs((env.SAMBANOVA_API_KEYS \cap {1})
                  \cup ContiguousFromTwo(env.SAMBANOVA_API_KEYS))
    /\ ConfiguredAs(env.SAMBANOVA_API_KEYS # {})

\* C24 as amended: the pool is the base credential (if present) followed by
\* KEY_2, KEY_3, ... up to the first missing index, and isConfigured() is
\* true if and only if the pool is not empty, that is if KEY or KEY_2 is
\* present; credentials after a gap do not make the provider configured.
ConfiguredIffPoolNotEmpty ==
    /\ PoolIs((env.SAMBANOVA_API_KEYS \cap {1})
                  \cup ContiguousFromTwo(env.SAMBANOVA_API_KEYS))
    /\ ConfiguredAs(1 \in env.SAMBANOVA_API_KEYS \/ 2 \in env.SAMBANOVA_API_KEYS)

\* KEY and KEY_3 are set, KEY_2 is not: two requests both used the one
\* credential of the pool
ConfiguredIffPoolNotEmptyWitness ==
    /\ env.SAMBANOVA_API_KEYS = {1, 3}
    /\ Len(invocations) = 2
    /\ invocations[1].key = 0 /\ invocations[2].key = 0
    /\ currentKeyIndex = 0

\* C25: analyzeCarriageImage terminates whenever every remote call
\* completes: a pending call eventually returns, after at most one attempt
\* per listed provider, and the analyzer is ready again.
AnalyzeTerminates ==
    /\ [](Len(call.invoked) <= Len(providers))
    /\ (call.pc = "awaiting") ~> (call.pc = "returned" /\ phase = "ready")

\* three providers, each tried once, all failed, and the call has returned
AnalyzeTerminatesWitness ==
    /\ call.pc = "returned"
    /\ Len(providers) = 3
    /\ Len(call.invoked) = 3
    /\ Len(call.errors) = 3

\* the failure record a call builds from its own attempts
OwnFailures(c) ==
    [i \in 1..Len(SelectSeq(c.attempts, LAMBDA a : ~a.ok)) |->
        [provider |-> getName(SelectSeq(c.attempts, LAMBDA a : ~a.ok)[i].provider),
         error |-> SelectSeq(c.attempts, LAMBDA a : ~a.ok)[i].msg]]

\* the result a call owes to its own attempts
OwnResult(c) ==
    IF Len(c.attempts) > 0 /\ c.attempts[Len(c.attempts)].ok
    THEN c.attempts[Len(c.attempts)].result
    ELSE [status |-> "moderate", capacity |-> JNum(50), confidence |-> JNum(0),
          reasoning |-> JStr("All providers failed. Errors: " \o EntryList(c.attempts))]

\* C26: overlapping analyzeCarriageImage calls are independent: whatever the
\* interleaving, a call's failure record holds its own failures only, its
\* result is determined by its own attempts, and a step of one call leaves
\* the other calls' locals as they are (the rotation pointer is all they share).
ConcurrentCallsIndependent ==
    /\ [](\A id \in DOMAIN calls :
            /\ calls[id].errors = OwnFailures(calls[id])
            /\ calls[id].pc = "returned" => calls[id].result = OwnResult(calls[id]))
    /\ [][\A id, other \in DOMAIN calls :
            (calls'[id] # calls[id] /\ other # id) => calls'[other] = calls[other]]_vars

\* call 1 has returned the degraded result listing its own two failures
\* while call 2, whose first provider failed differently, waits on its second
ConcurrentCallsIndependentWitness ==
    /\ DOMAIN calls = CallIds
    /\ calls[1].pc = "returned"
    /\ Len(calls[1].errors) = 2
    /\ calls[2].pc = "awaiting"
    /\ Len(calls[2].errors) = 1
    /\ calls[2].errors[1] # calls[1].errors[1]
    /\ calls[1].result.confidence = JNum(0)

\* the requests that have delivered a result to the page
Delivered == {i \in 1..Len(ui.requests) : ui.requests[i].st = "done"}

\* C27 as stated: an analysis sent while an earlier one is pending does not
\* cancel it, and once both have completed the status shown is the result of
\* the later-sent request: an older frame's result is never left displayed
\* over a newer frame's.
FresherResultShown ==
    \A i, j \in Delivered :
        (i < j /\ ui.requests[i].target = ui.requests[j].target) =>
            ui.carriages[ui.requests[j].target].writer # i

\* C28 as stated: a result updates only the carriage whose video the
\* analysed frame was captured from, also when another carriage is selected
\* while the analysis is in flight.
ResultWrittenToFrameCarriage ==
    \A i \in Delivered : ui.requests[i].target = ui.requests[i].frame

\* the registered providers that are configured and enabled, in registry order
UsableInRegistryOrder ==
    LET Keep(name) == Usable(name, env)
    IN  SelectSeq(PROVIDER_REGISTRY, Keep)

\* the head the list must have: the primary if usable, else the explicit
\* fallback if usable, else the first usable provider in registry order
ExpectedHead ==
    LET primaryName == getPrimaryProvider(env)
        fallbackName == getFallbackProvider(env)
    IN  IF primaryName \in Registered /\ Usable(primaryName, env) THEN primaryName
        ELSE IF fallbackName \in Registered /\ Usable(fallbackName, env) THEN fallbackName
        ELSE Head(UsableInRegistryOrder)

\* C29 as stated: module load fails only when the final list is empty: with
\* the primary unregistered, unconfigured or disabled it still succeeds
\* whenever some registered provider is usable, the list then starting with
\* the explicit fallback if usable, else with the first usable provider in
\* registry order; the head is the primary exactly when the primary is
\* registered, configured and enabled.
LoadFailsOnlyOnEmptyList ==
    phase # "boot" =>
        /\ (phase = "failed") <=> (UsableInRegistryOrder = <<>>)
        /\ phase = "ready" =>
              /\ providers[1] = ExpectedHead
              /\ (providers[1] = getPrimaryProvider(env)) <=>
                    /\ getPrimaryProvider(env) \in Registered
                    /\ Usable(getPrimaryProvider(env), env)

\* the same with selectors that name an inherited member of the registry
\* object left aside
LoadFailsOnlyOnEmptyListOwnKeys ==
    (/\ RegistryLookup(getPrimaryProvider(env)) # "inherited"
     /\ getFallbackProvider(env) # NoFallback =>
            RegistryLookup(getFallbackProvider(env)) # "inherited")
        => LoadFailsOnlyOnEmptyList

\* C30: rotateKey reads and advances the pointer within one synchronous run,
\* so however the analyzeImage calls overlap no advance is lost: the k calls
\* that reached rotateKey used k consecutive pool positions from the initial
\* pointer 0 on, each taking the pointer the previous one left, the pointer
\* now stands at k mod poolSize, and two of them used the same credential
\* only if k exceeds the pool size.
NoRotationLost ==
    PoolSize > 0 =>
        LET used == KeysUsed(invocations)
            k == Len(used)
            rotated == SelectSeq(invocations, LAMBDA inv : inv.key # NoKey)
        IN  /\ \A n \in 1..k :
                   /\ rotated[n].key = rotated[n].before
                   /\ rotated[n].after = (rotated[n].before + 1) % PoolSize
                   /\ rotated[n].before = IF n = 1 THEN 0 ELSE rotated[n - 1].after
            /\ \A n \in 1..(k - 1) : used[n + 1] = (used[n] + 1) % PoolSize
            /\ currentKeyIndex = (0 + k) % PoolSize
            /\ (\E m, n \in 1..k : m # n /\ used[m] = used[n]) => k > PoolSize
            /\ k <= PoolSize => Cardinality({used[n] : n \in 1..k}) = k

\* two keys and three requests in flight at once, sent around a call that
\* failed at its image: positions 0, 1, 0 were used and the pointer is at 1
NoRotationLostWitness ==
    /\ PoolSize = 2
    /\ Len(invocations) = 4
    /\ KeysUsed(invocations) = <<0, 1, 0>>
    /\ invocations[2].key = NoKey
    /\ \A i \in {1, 3, 4} : invocations[i].st = "inflight"
    /\ currentKeyIndex = 1

====
